---- MODULE Spec2Model ----
(***************************************************************************)
(* A model of sqlalchemy_fdw: the foreign-data-wrapper server lifecycle    *)
(* (ForeignDataWrapper.check_existence / create / drop and the two DDL     *)
(* compilers), the foreign-table registry and the DDL compiler overrides   *)
(* (is_foreign, post_create_table, visit_drop_table,                       *)
(* create_table_constraints), and the reflection overrides of the dialect. *)
(*                                                                         *)
(* Python values are modelled as follows.  A connectable is the string     *)
(* "engine"; Python's None is the string "None".  A dict is the sequence   *)
(* of its <<key, value>> items in insertion order.  A call that raises is  *)
(* a result record whose exc field names the exception class; exc = ""     *)
(* means the call returned.  SQL text is a TLA+ string built with \o the   *)
(* way the code builds it with % and +.                                    *)
(***************************************************************************)
EXTENDS Integers, Sequences, FiniteSets, TLC

VARIABLES
    fdw,                \* the ForeignDataWrapper instance (its __dict__)
    pg_foreign_server,  \* srvname column of the database's pg_foreign_server
    stmts,              \* statements the last call sent through bind.execute
    last,               \* the last call: its arguments, the state it met, its outcome
    pg,                 \* the database's table catalogs (pg_class, pg_foreign_table, ...)
    info_cache,         \* the info_cache dict a caller hands to the reflection methods
    desc,               \* the table descriptor handed to get_foreign_table_options
    seen,               \* the reflection calls that have returned so far
    md,                 \* the MetaData catalog: bind, tables, _foreign_tables
    declared            \* the constraints a table is declared with

vars == <<fdw, pg_foreign_server, stmts, last, pg, info_cache, desc, seen, md, declared>>
serverVars == <<fdw, pg_foreign_server>>
reflectVars == <<pg, info_cache, desc, seen>>
catalogVars == <<md, declared>>

(***************************************************************************)
(* Bounds and input sets                                                   *)
(***************************************************************************)
ServerNames == {"srv1", "srv2"}
ExtensionNames == {"mysql_fdw"}
Binds == {"None", "engine"}
OptionDicts == {<<>>, <<<<"option1", "test">>>>,
                <<<<"host", "127.0.0.1">>, <<"port", "5432">>>>}

(***************************************************************************)
(* util.py                                                                 *)
(***************************************************************************)
\* IdentifierPreparer.quote_identifier: the identifier between double quotes
\* (the names used here hold no double quote, so none is doubled).
quote_identifier(ident) == "\"" \o ident \o "\""

\* ','.join(parts)
RECURSIVE JoinComma(_)
JoinComma(parts) ==
    IF parts = <<>> THEN ""
    ELSE IF Len(parts) = 1 THEN parts[1]
    ELSE parts[1] \o "," \o JoinComma(Tail(parts))

\* the list comprehension of sql_options: one "%s '%s'" per item
option_pairs(options) ==
    [i \in 1..Len(options) |->
        quote_identifier(options[i][1]) \o " '" \o options[i][2] \o "'"]

\* Mutant of sql_options: the clause is emitted for an empty mapping too
\* (a test for None in place of the truth test).
sql_options_EmptyParens(options) ==
    " options (" \o JoinComma(option_pairs(options)) \o ")"

sql_options(options) ==
    IF options # <<>>
    THEN " options (" \o JoinComma(option_pairs(options)) \o ")"
    ELSE ""

(***************************************************************************)
(* __init__.py: ForeignDataWrapper                                         *)
(***************************************************************************)
\* ForeignDataWrapper.__init__; metadata is [present, bind]: present = FALSE
\* is metadata=None, bind is the MetaData's bind.
ForeignDataWrapper(name, extension_name, metadata, bind, options) ==
    [name |-> name, options |-> options, extension_name |-> extension_name,
     metadata |-> metadata, _bind |-> bind]

\* The bind property: self._bind or self.metadata.bind.  Reading .bind of a
\* None metadata raises AttributeError.
bind_property(self) ==
    IF self._bind # "None" THEN [exc |-> "", val |-> self._bind]
    ELSE IF ~self.metadata.present THEN [exc |-> "AttributeError", val |-> "None"]
    ELSE [exc |-> "", val |-> self.metadata.bind]

\* sqlalchemy's _bind_or_error(schemaitem): reads schemaitem.bind and raises
\* UnboundExecutionError when it is falsy.
bind_or_error(self) ==
    LET b == bind_property(self) IN
    IF b.exc # "" THEN b
    ELSE IF b.val = "None" THEN [exc |-> "UnboundExecutionError", val |-> "None"]
    ELSE b

\* visit_create_fdw
visit_create_fdw(create) ==
    "CREATE server " \o quote_identifier(create.name)
        \o " foreign data wrapper " \o quote_identifier(create.extension_name)
        \o " " \o sql_options(create.options)

\* DropForeignDataWrapper.__init__: pops cascade, then the base __init__
DropForeignDataWrapper(name, extension_name, bind, cascade) ==
    [name |-> name, options |-> <<>>, extension_name |-> extension_name,
     metadata |-> [present |-> FALSE, bind |-> "None"], _bind |-> bind,
     cascade |-> cascade]

\* visit_drop_fdw
visit_drop_fdw(drop) ==
    "DROP server " \o quote_identifier(drop.name) \o " "
        \o (IF drop.cascade THEN " CASCADE" ELSE "")

\* The database executing one statement on the server catalog: CREATE of an
\* existing server and DROP of a missing one are refused with an error.
db_execute(db, stmt) ==
    CASE stmt.kind = "create" ->
            IF stmt.name \in db THEN [exc |-> "ProgrammingError", db |-> db]
            ELSE [exc |-> "", db |-> db \cup {stmt.name}]
      [] stmt.kind = "drop" ->
            IF stmt.name \notin db THEN [exc |-> "ProgrammingError", db |-> db]
            ELSE [exc |-> "", db |-> db \ {stmt.name}]
      [] OTHER -> [exc |-> "", db |-> db]

\* ForeignDataWrapper.check_existence
check_existence(self, bind, db) ==
    LET b == IF bind = "None" THEN bind_or_error(self)
             ELSE [exc |-> "", val |-> bind] IN
    IF b.exc # "" THEN [exc |-> b.exc, ret |-> FALSE, stmts |-> <<>>, db |-> db]
    ELSE [exc |-> "", ret |-> self.name \in db, db |-> db,
          stmts |-> <<[kind |-> "select", name |-> self.name,
                       text |-> "select srvname from pg_foreign_server where srvname = :name"]>>]

\* DDLElement.execute() of a create/drop statement object built with bind=bind
execute_ddl(element, kind, text, db) ==
    LET b == bind_or_error(element)
        s == [kind |-> kind, name |-> element.name, text |-> text] IN
    IF b.exc # "" THEN [exc |-> b.exc, stmts |-> <<>>, db |-> db]
    ELSE LET r == db_execute(db, s) IN
         [exc |-> r.exc, stmts |-> <<s>>, db |-> r.db]

\* Mutant of create: the existence check's answer is not negated.
create_CheckNotNegated(self, bind, checkfirst, db) ==
    LET b == IF bind = "None" THEN bind_or_error(self)
             ELSE [exc |-> "", val |-> bind] IN
    IF b.exc # "" THEN [exc |-> b.exc, stmts |-> <<>>, db |-> db]
    ELSE LET chk == IF checkfirst THEN check_existence(self, b.val, db)
                    ELSE [exc |-> "", ret |-> FALSE, stmts |-> <<>>, db |-> db] IN
         IF (~checkfirst) \/ chk.ret
         THEN LET e == ForeignDataWrapper(self.name, self.extension_name,
                           [present |-> FALSE, bind |-> "None"], b.val, self.options)
                  x == execute_ddl(e, "create", visit_create_fdw(e), db) IN
              [exc |-> x.exc, stmts |-> chk.stmts \o x.stmts, db |-> x.db]
         ELSE [exc |-> "", stmts |-> chk.stmts, db |-> db]

\* ForeignDataWrapper.create
create(self, bind, checkfirst, db) ==
    LET b == IF bind = "None" THEN bind_or_error(self)
             ELSE [exc |-> "", val |-> bind] IN
    IF b.exc # "" THEN [exc |-> b.exc, stmts |-> <<>>, db |-> db]
    ELSE LET chk == IF checkfirst THEN check_existence(self, b.val, db)
                    ELSE [exc |-> "", ret |-> FALSE, stmts |-> <<>>, db |-> db] IN
         IF (~checkfirst) \/ ~chk.ret
         THEN LET e == ForeignDataWrapper(self.name, self.extension_name,
                           [present |-> FALSE, bind |-> "None"], b.val, self.options)
                  x == execute_ddl(e, "create", visit_create_fdw(e), db) IN
              [exc |-> x.exc, stmts |-> chk.stmts \o x.stmts, db |-> x.db]
         ELSE [exc |-> "", stmts |-> chk.stmts, db |-> db]

\* Mutant of drop: the cascade argument is not handed to the statement object.
drop_CascadeLost(self, bind, checkfirst, cascade, db) ==
    LET b == IF bind = "None" THEN bind_or_error(self)
             ELSE [exc |-> "", val |-> bind] IN
    IF b.exc # "" THEN [exc |-> b.exc, stmts |-> <<>>, db |-> db]
    ELSE LET chk == IF checkfirst THEN check_existence(self, b.val, db)
                    ELSE [exc |-> "", ret |-> TRUE, stmts |-> <<>>, db |-> db] IN
         IF (~checkfirst) \/ chk.ret
         THEN LET e == DropForeignDataWrapper(self.name, self.extension_name,
                                              b.val, FALSE)
                  x == execute_ddl(e, "drop", visit_drop_fdw(e), db) IN
              [exc |-> x.exc, stmts |-> chk.stmts \o x.stmts, db |-> x.db]
         ELSE [exc |-> "", stmts |-> chk.stmts, db |-> db]

\* ForeignDataWrapper.drop
drop(self, bind, checkfirst, cascade, db) ==
    LET b == IF bind = "None" THEN bind_or_error(self)
             ELSE [exc |-> "", val |-> bind] IN
    IF b.exc # "" THEN [exc |-> b.exc, stmts |-> <<>>, db |-> db]
    ELSE LET chk == IF checkfirst THEN check_existence(self, b.val, db)
                    ELSE [exc |-> "", ret |-> TRUE, stmts |-> <<>>, db |-> db] IN
         IF (~checkfirst) \/ chk.ret
         THEN LET e == DropForeignDataWrapper(self.name, self.extension_name,
                                              b.val, cascade)
                  x == execute_ddl(e, "drop", visit_drop_fdw(e), db) IN
              [exc |-> x.exc, stmts |-> chk.stmts \o x.stmts, db |-> x.db]
         ELSE [exc |-> "", stmts |-> chk.stmts, db |-> db]

(***************************************************************************)
(* dialect.py: the reflection overrides of PGDialectFdw                    *)
(*                                                                         *)
(* The database's catalogs are pg: pg.class is the sequence of pg_class    *)
(* rows (with the namespace name and the primary-key columns joined in),   *)
(* pg.foreign the sequence of pg_foreign_table rows joined to their        *)
(* server; SelectSeq keeps the rows of a result in catalog order.  An      *)
(* ftoptions entry, a Python str that the code splits, is the sequence of  *)
(* its characters; Str turns characters back into a string.                *)
(***************************************************************************)
default_schema_name == "public"

RECURSIVE Str(_)
Str(cs) == IF cs = <<>> THEN "" ELSE cs[1] \o Str(Tail(cs))

\* reflection.cache, the decorator on the four methods: without an
\* info_cache the method runs; with one, a result stored under key is
\* returned and no query is made, and a fresh result is stored.  r is what
\* running the method gives.
reflection_cache(cache, key, r) ==
    IF ~cache.present THEN [r EXCEPT !.cache = cache]
    ELSE IF key \in DOMAIN cache.entries
         THEN [r EXCEPT !.exc = "", !.ret = cache.entries[key], !.stmts = <<>>,
                        !.cache = cache]
    ELSE IF r.exc # "" THEN [r EXCEPT !.cache = cache]
    ELSE [r EXCEPT !.cache = [cache EXCEPT !.entries = (key :> r.ret) @@ @]]

\* The cache key: the method's name and its positional str arguments (a
\* None schema is no str and is left out); no keyword but info_cache is passed.
cache_key(fn_name, args) ==
    <<fn_name, SelectSeq(args, LAMBDA a : a # "None"), <<>>>>

Query(kind, arg) == [kind |-> kind, name |-> arg, text |-> kind]

\* get_primary_keys
get_primary_keys(db, cache, table_name, schema) ==
    LET current_schema == IF schema # "None" THEN schema ELSE default_schema_name
        rows == SelectSeq(db.class, LAMBDA r : r.relname = table_name
                                              /\ r.nspname = current_schema)
        cols == IF rows = <<>> THEN <<>> ELSE rows[1].pk IN
    reflection_cache(cache, cache_key("get_primary_keys", <<table_name, schema>>),
        [exc |-> "", ret |-> cols, stmts |-> <<Query("PK_SQL", table_name)>>,
         cache |-> cache])

\* get_table_names
get_table_names(db, cache, schema) ==
    LET current_schema == IF schema # "None" THEN schema ELSE default_schema_name
        rows == SelectSeq(db.class, LAMBDA r : r.relkind \in {"r", "f"}
                                              /\ r.nspname = current_schema) IN
    reflection_cache(cache, cache_key("get_table_names", <<schema>>),
        [exc |-> "", ret |-> [i \in 1..Len(rows) |-> rows[i].relname],
         stmts |-> <<Query("SELECT relname", current_schema)>>, cache |-> cache])

\* get_table_oid
get_table_oid(db, cache, table_name, schema) ==
    LET rows == SelectSeq(db.class, LAMBDA r :
                    /\ IF schema # "None" THEN r.nspname = schema
                       ELSE r.nspname = default_schema_name
                    /\ r.relname = table_name
                    /\ r.relkind \in {"r", "v", "f"})
        q == <<Query("SELECT c.oid", table_name)>> IN
    reflection_cache(cache, cache_key("get_table_oid", <<table_name, schema>>),
        IF rows = <<>>
        THEN [exc |-> "NoSuchTableError", ret |-> 0, stmts |-> q, cache |-> cache]
        ELSE [exc |-> "", ret |-> rows[1].oid, stmts |-> q, cache |-> cache])

\* Mutant of split_first: the split is made at the last "=" (rsplit).
split_first_AtLastEq(before, rest) ==
    LET o == before \o rest
        eqs == {i \in 1..Len(o) : o[i] = "="} IN
    IF eqs = {} THEN <<o>>
    ELSE LET i == CHOOSE x \in eqs : \A y \in eqs : y <= x IN
         <<SubSeq(o, 1, i - 1), SubSeq(o, i + 1, Len(o))>>

\* option.split('=', 1): the characters before the first "=" and those after
\* it, or the whole string alone when it holds no "=".
RECURSIVE split_first(_, _)
split_first(before, rest) ==
    IF rest = <<>> THEN <<before>>
    ELSE IF Head(rest) = "=" THEN <<before, Tail(rest)>>
    ELSE split_first(Append(before, Head(rest)), Tail(rest))

\* dict.__setitem__ on a dict kept as its sequence of items
dict_set(d, k, v) ==
    IF \E i \in 1..Len(d) : d[i][1] = k
    THEN [i \in 1..Len(d) |-> IF d[i][1] = k THEN <<k, v>> ELSE d[i]]
    ELSE Append(d, <<k, v>>)

\* dict([...]) of a list of [key, value] lists
RECURSIVE dict_of(_, _)
dict_of(d, items) ==
    IF items = <<>> THEN d
    ELSE dict_of(dict_set(d, Str(items[1][1]), Str(items[1][2])), Tail(items))

\* get_foreign_table_options(connection, pgfdw_table): it takes no **kw, so a
\* call that passes info_cache is a TypeError; every call that reaches the
\* body, and the oid lookup inside it, runs without an info_cache.
get_foreign_table_options(db, cache, pgfdw_table) ==
    LET nocache == [present |-> FALSE, entries |-> <<>>]
        unchanged == [server |-> pgfdw_table.pgfdw_server,
                      options |-> pgfdw_table.pgfdw_options, cache |-> cache]
        o == get_table_oid(db, nocache, pgfdw_table.name, pgfdw_table.schema)
        rows == SelectSeq(db.foreign, LAMBDA r : r.ftrelid = o.ret)
        q == o.stmts \o <<Query("SELECT ftoptions, srvname", pgfdw_table.name)>> IN
    IF cache.present
    THEN [exc |-> "TypeError", ret |-> "None", stmts |-> <<>>] @@ unchanged
    ELSE IF o.exc # ""
    THEN [exc |-> o.exc, ret |-> "None", stmts |-> o.stmts] @@ unchanged
    ELSE IF rows = <<>>
    THEN [exc |-> "TypeError", ret |-> "None", stmts |-> q] @@ unchanged
    ELSE LET options == rows[1].ftoptions
             pairs == [i \in 1..Len(options.items) |->
                          split_first(<<>>, options.items[i])] IN
         IF (~options.null) /\ \E i \in 1..Len(pairs) : Len(pairs[i]) # 2
         THEN [exc |-> "ValueError", ret |-> "None", stmts |-> q,
               server |-> rows[1].srvname,
               options |-> pgfdw_table.pgfdw_options, cache |-> cache]
         ELSE [exc |-> "", ret |-> "None", stmts |-> q,
               server |-> rows[1].srvname,
               options |-> IF ~options.null THEN dict_of(<<>>, pairs) ELSE <<>>,
               cache |-> cache]

(***************************************************************************)
(* The server lifecycle as a state machine                                 *)
(***************************************************************************)
NoCatalog == [class |-> <<>>, foreign |-> <<>>]
NoDescriptor == [name |-> "None", schema |-> "None", pgfdw_server |-> "None",
                 pgfdw_options |-> <<>>]
NoMetaData == [bind |-> "None", tables |-> <<>>,
               _foreign_tables |-> [present |-> FALSE, keys |-> {}]]

NoCall ==
    [op |-> "none", bind |-> "None", checkfirst |-> FALSE, cascade |-> FALSE,
     before |-> {}, exc |-> "", ret |-> FALSE]

\* After construction of one server definition, against a database that
\* may or may not hold servers already.
InitServer ==
    /\ fdw \in {ForeignDataWrapper(n, e, [present |-> p, bind |-> mb], b, o) :
                    n \in ServerNames, e \in ExtensionNames, p \in BOOLEAN,
                    mb \in Binds, b \in Binds, o \in OptionDicts}
    /\ fdw.metadata.present \/ fdw.metadata.bind = "None"
    /\ pg_foreign_server \in SUBSET ServerNames
    /\ stmts = <<>>
    /\ last = NoCall
    /\ pg = NoCatalog
    /\ info_cache = [present |-> FALSE, entries |-> <<>>]
    /\ desc = NoDescriptor
    /\ seen = {}
    /\ md = NoMetaData
    /\ declared = {}

CheckExistence(b) ==
    LET r == check_existence(fdw, b, pg_foreign_server) IN
    /\ stmts' = r.stmts
    /\ pg_foreign_server' = r.db
    /\ last' = [op |-> "check_existence", bind |-> b, checkfirst |-> FALSE,
                cascade |-> FALSE, before |-> pg_foreign_server,
                exc |-> r.exc, ret |-> r.ret]
    /\ UNCHANGED <<fdw, reflectVars, catalogVars>>

Create(b, checkfirst) ==
    LET r == create(fdw, b, checkfirst, pg_foreign_server) IN
    /\ stmts' = r.stmts
    /\ pg_foreign_server' = r.db
    /\ last' = [op |-> "create", bind |-> b, checkfirst |-> checkfirst,
                cascade |-> FALSE, before |-> pg_foreign_server,
                exc |-> r.exc, ret |-> FALSE]
    /\ UNCHANGED <<fdw, reflectVars, catalogVars>>

Drop(b, checkfirst, cascade) ==
    LET r == drop(fdw, b, checkfirst, cascade, pg_foreign_server) IN
    /\ stmts' = r.stmts
    /\ pg_foreign_server' = r.db
    /\ last' = [op |-> "drop", bind |-> b, checkfirst |-> checkfirst,
                cascade |-> cascade, before |-> pg_foreign_server,
                exc |-> r.exc, ret |-> FALSE]
    /\ UNCHANGED <<fdw, reflectVars, catalogVars>>

NextServer ==
    \/ \E b \in Binds : CheckExistence(b)
    \/ \E b \in Binds, cf \in BOOLEAN : Create(b, cf)
    \/ \E b \in Binds, cf \in BOOLEAN, c \in BOOLEAN : Drop(b, cf, c)

SpecServer == InitServer /\ [][NextServer]_vars

(***************************************************************************)
(* Properties of the server lifecycle                                      *)
(***************************************************************************)
CountKind(s, k) == Cardinality({i \in 1..Len(s) : s[i].kind = k})

\* The last call had a connection to run on: an explicit bind, the
\* definition's own bind, or the bind of its metadata.
HasConnection ==
    \/ last.bind # "None"
    \/ fdw._bind # "None"
    \/ (fdw.metadata.present /\ fdw.metadata.bind # "None")

\* The server of this definition existed when the last call began.
Existed == fdw.name \in last.before

CreateText ==
    [n \in ServerNames |-> "CREATE server \"" \o n \o "\" foreign data wrapper \"mysql_fdw\" "]

\* C1: create(checkfirst=True) issues no CREATE SERVER statement when the
\* server exists at the time of the call and exactly one otherwise;
\* create(checkfirst=False) issues exactly one CREATE SERVER statement whether
\* or not the server exists, and runs no existence query.
C1_CreateChecksFirst ==
    (last.op = "create" /\ HasConnection) =>
        /\ (last.checkfirst /\ Existed) =>
                (CountKind(stmts, "create") = 0 /\ pg_foreign_server = last.before)
        /\ (last.checkfirst /\ ~Existed) =>
                (CountKind(stmts, "create") = 1 /\ CountKind(stmts, "select") = 1)
        /\ (~last.checkfirst) =>
                (CountKind(stmts, "create") = 1 /\ CountKind(stmts, "select") = 0)
        /\ CountKind(stmts, "drop") = 0
        /\ \A i \in 1..Len(stmts) :
                stmts[i].kind = "create" =>
                    /\ stmts[i].name = fdw.name
                    /\ stmts[i].text = CreateText[fdw.name] \o sql_options(fdw.options)

\* A create(checkfirst=True) that met an existing server and sent only the
\* existence query.
C1_Witness ==
    /\ last.op = "create" /\ HasConnection /\ last.checkfirst /\ Existed
    /\ Len(stmts) = 1 /\ stmts[1].kind = "select"

DropText == [n \in ServerNames |-> "DROP server \"" \o n \o "\" "]

\* C2: drop issues exactly one DROP SERVER statement when checkfirst is false
\* or the server exists, and otherwise issues no statement and leaves the
\* database as it was; the statement ends in CASCADE exactly when cascade is
\* true.
C2_DropChecksFirst ==
    (last.op = "drop" /\ HasConnection) =>
        /\ ((~last.checkfirst) \/ Existed) => CountKind(stmts, "drop") = 1
        /\ (last.checkfirst /\ ~Existed) =>
                /\ CountKind(stmts, "drop") = 0
                /\ pg_foreign_server = last.before
        /\ CountKind(stmts, "create") = 0
        /\ CountKind(stmts, "select") = (IF last.checkfirst THEN 1 ELSE 0)
        /\ \A i \in 1..Len(stmts) :
                stmts[i].kind = "drop" =>
                    /\ stmts[i].name = fdw.name
                    /\ last.cascade => stmts[i].text = DropText[fdw.name] \o " CASCADE"
                    /\ (~last.cascade) => stmts[i].text = DropText[fdw.name]

\* A drop(checkfirst=True, cascade=True) that met an existing server.
C2_Witness ==
    /\ last.op = "drop" /\ HasConnection /\ last.checkfirst /\ Existed
    /\ last.cascade
    /\ Len(stmts) = 2 /\ stmts[2].text = "DROP server \"srv1\"  CASCADE"
    /\ fdw.name \notin pg_foreign_server

\* C9: check_existence, create and drop raise the "no bound connection" error
\* (UnboundExecutionError) and send no statement whenever no bind is passed
\* and neither the definition nor its metadata (absent or unbound) has one.
C9_UnboundRaises ==
    (last.op \in {"check_existence", "create", "drop"} /\ ~HasConnection) =>
        (last.exc = "UnboundExecutionError" /\ stmts = <<>>)

(***************************************************************************)
(* Reflection of a foreign table's server and options                      *)
(***************************************************************************)
MaxOptLen == 3
MaxOptions == 2
OptAlphabet == {"k", "="}
TableNames == {"mytable", "Users"}

SeqsUpTo(S, n) == UNION {[1..k -> S] : k \in 0..n}

\* ftoptions entries as PostgreSQL stores them: name=value
OptionStrings == {o \in SeqsUpTo(OptAlphabet, MaxOptLen) : \E i \in 1..Len(o) : o[i] = "="}

HostPort ==
    << <<"h","o","s","t","=","1","2","7",".","0",".","0",".","1">>,
       <<"p","o","r","t","=","5","4","3","2">> >>

FtOptions ==
    {[null |-> TRUE, items |-> <<>>], [null |-> FALSE, items |-> HostPort]}
    \cup {[null |-> FALSE, items |-> o] : o \in SeqsUpTo(OptionStrings, MaxOptions)}

\* A database holding the foreign table mytable, the view myview and,
\* with users, the ordinary table Users.
PgCatalog(ftoptions, srvname, users) ==
    [class |->
        <<[relname |-> "mytable", relkind |-> "f", oid |-> 1,
           nspname |-> "public", pk |-> <<>>],
          [relname |-> "myview", relkind |-> "v", oid |-> 3,
           nspname |-> "public", pk |-> <<>>]>>
        \o (IF users
            THEN <<[relname |-> "Users", relkind |-> "r", oid |-> 2,
                    nspname |-> "public", pk |-> <<"id">>]>>
            ELSE <<>>),
     foreign |-> <<[ftrelid |-> 1, ftoptions |-> ftoptions, srvname |-> srvname]>>]

Descriptors ==
    {[name |-> n, schema |-> sc, pgfdw_server |-> p[1], pgfdw_options |-> p[2]] :
        n \in TableNames, sc \in {"None", "public"},
        p \in {<<"None", <<>>>>, <<"srv_old", <<<<"stale", "1">>>>>>}}

InitOptions ==
    /\ pg \in {PgCatalog(o, n, TRUE) : o \in FtOptions, n \in ServerNames}
    /\ desc \in Descriptors
    /\ info_cache = [present |-> FALSE, entries |-> <<>>]
    /\ seen = {}
    /\ stmts = <<>>
    /\ last = [op |-> "none", call |-> <<>>, repeat |-> FALSE, exc |-> "",
               before |-> desc]
    /\ fdw = ForeignDataWrapper("srv1", "mysql_fdw",
                                [present |-> FALSE, bind |-> "None"], "None", <<>>)
    /\ pg_foreign_server = {}
    /\ md = NoMetaData
    /\ declared = {}

\* dialect.get_foreign_table_options(connection, desc), as foreign-table
\* construction with autoload runs it through run_callable.
GetForeignTableOptions ==
    LET r == get_foreign_table_options(pg, [present |-> FALSE, entries |-> <<>>], desc)
        call == <<"get_foreign_table_options", desc.name, desc.schema>> IN
    /\ desc' = [desc EXCEPT !.pgfdw_server = r.server, !.pgfdw_options = r.options]
    /\ stmts' = r.stmts
    /\ last' = [op |-> "get_foreign_table_options", call |-> call,
                repeat |-> call \in seen, exc |-> r.exc, before |-> desc]
    /\ seen' = IF r.exc = "" THEN seen \cup {call} ELSE seen
    /\ UNCHANGED <<serverVars, pg, info_cache, catalogVars>>

NextOptions == GetForeignTableOptions

SpecOptions == InitOptions /\ [][NextOptions]_vars

\* The ftoptions and srvname of the foreign-table row of desc's table.
FtRow == pg.foreign[1]

\* Position of the first "=" of an option string.
FirstEq(o) == CHOOSE i \in 1..Len(o) : o[i] = "=" /\ \A j \in 1..(i - 1) : o[j] # "="
KeyOf(o) == Str(SubSeq(o, 1, FirstEq(o) - 1))
ValueOf(o) == Str(SubSeq(o, FirstEq(o) + 1, Len(o)))

\* C8: get_foreign_table_options writes onto the descriptor server = srvname
\* and options = the mapping of every ftoptions entry split at its first "="
\* only (a later entry of the same name replacing an earlier one); a NULL
\* ftoptions gives the empty mapping; what the descriptor held is overwritten.
C8_OptionsWrittenBack ==
    (last.op = "get_foreign_table_options" /\ last.exc = "") =>
        /\ desc.pgfdw_server = FtRow.srvname
        /\ FtRow.ftoptions.null => desc.pgfdw_options = <<>>
        /\ (~FtRow.ftoptions.null) =>
            LET items == FtRow.ftoptions.items
                d == desc.pgfdw_options IN
            /\ {d[i][1] : i \in 1..Len(d)} = {KeyOf(items[i]) : i \in 1..Len(items)}
            /\ \A i, j \in 1..Len(d) : d[i][1] = d[j][1] => i = j
            /\ \A i \in 1..Len(items) :
                  (\A j \in (i + 1)..Len(items) : KeyOf(items[j]) # KeyOf(items[i]))
                  => \E n \in 1..Len(d) : d[n] = <<KeyOf(items[i]), ValueOf(items[i])>>
        /\ FtRow.ftoptions.items = HostPort =>
                desc.pgfdw_options = <<<<"host", "127.0.0.1">>, <<"port", "5432">>>>
        /\ desc.name = last.before.name /\ desc.schema = last.before.schema

\* The descriptor held a stale server and stale options, the table's
\* option value itself holds an "=", and the call replaced both.
C8_Witness ==
    /\ last.op = "get_foreign_table_options" /\ last.exc = ""
    /\ last.before.pgfdw_server = "srv_old"
    /\ last.before.pgfdw_options = <<<<"stale", "1">>>>
    /\ FtRow.ftoptions.items = << <<"k", "=", "=">>, <<"=", "k">> >>
    /\ desc.pgfdw_options = <<<<"k", "=">>, <<"", "k">>>>
    /\ desc.pgfdw_server = "srv2"

(***************************************************************************)
(* The reflection methods as this code and its host invoke them: the       *)
(* Inspector passes its info_cache to get_table_names, get_primary_keys    *)
(* and get_table_oid; foreign-table autoload runs                          *)
(* get_foreign_table_options through run_callable with the table alone.    *)
(***************************************************************************)
ReflectionOps ==
    {"get_table_names", "get_primary_keys", "get_table_oid",
     "get_foreign_table_options"}
Schemas == {"None", "public"}

InitReflect ==
    /\ pg \in {PgCatalog([null |-> FALSE, items |-> HostPort], "srv1", u) :
                    u \in BOOLEAN}
    /\ desc \in {d \in Descriptors : d.schema = "None" /\ d.pgfdw_server = "None"}
    /\ info_cache = [present |-> TRUE, entries |-> <<>>]
    /\ seen = {}
    /\ stmts = <<>>
    /\ last = [op |-> "none", call |-> <<>>, repeat |-> FALSE, exc |-> "",
               before |-> desc]
    /\ fdw = ForeignDataWrapper("srv1", "mysql_fdw",
                                [present |-> FALSE, bind |-> "None"], "None", <<>>)
    /\ pg_foreign_server = {}
    /\ md = NoMetaData
    /\ declared = {}

Reflected(op, call, r) ==
    /\ info_cache' = r.cache
    /\ stmts' = r.stmts
    /\ last' = [op |-> op, call |-> call, repeat |-> call \in seen,
                exc |-> r.exc, before |-> desc]
    /\ seen' = IF r.exc = "" THEN seen \cup {call} ELSE seen
    /\ UNCHANGED <<serverVars, pg, desc, catalogVars>>

GetTableNames(schema) ==
    Reflected("get_table_names", <<"get_table_names", schema>>,
              get_table_names(pg, info_cache, schema))

GetPrimaryKeys(table_name, schema) ==
    Reflected("get_primary_keys", <<"get_primary_keys", table_name, schema>>,
              get_primary_keys(pg, info_cache, table_name, schema))

GetTableOid(table_name, schema) ==
    Reflected("get_table_oid", <<"get_table_oid", table_name, schema>>,
              get_table_oid(pg, info_cache, table_name, schema))

NextReflect ==
    \/ \E sc \in Schemas : GetTableNames(sc)
    \/ \E t \in TableNames, sc \in Schemas : GetPrimaryKeys(t, sc)
    \/ \E t \in TableNames, sc \in Schemas : GetTableOid(t, sc)
    \/ GetForeignTableOptions

SpecReflect == InitReflect /\ [][NextReflect]_vars

\* C10: each of the four reflection operations, called again with the same
\* connection and arguments on the same dialect after a call that returned,
\* gives the memoized result and sends no query to the database.
C10_SecondCallMemoized ==
    (last.op \in ReflectionOps /\ last.repeat) => stmts = <<>>

\* The three methods that are handed an info_cache do answer a repeated call
\* from it.
CachedWhenInfoCacheGiven ==
    (last.op \in ReflectionOps \ {"get_foreign_table_options"} /\ last.repeat)
        => stmts = <<>>

(***************************************************************************)
(* __init__.py: ForeignTable, on the host library's Table                  *)
(*                                                                         *)
(* A MetaData m is [bind, tables, _foreign_tables]: tables maps a key to   *)
(* the table object of that key, _foreign_tables is [present, keys]        *)
(* (present = FALSE: the attribute was never set).  A table object keeps,  *)
(* beside its attributes, cls (the class that allocated it) and            *)
(* ft_returned (a ForeignTable(...) call has returned it).  Tables carry   *)
(* no schema, so key = name.                                               *)
(***************************************************************************)
\* The primary key Table._init gives every table: made first, no column yet.
ImplicitPk ==
    [kind |-> "pk", order |-> 0, ncols |-> 0, referred |-> "None",
     use_alter |-> FALSE, create_rule |-> "None"]

\* A fresh object of class cls, as Table._init leaves it; args are the
\* constraints passed with the columns (with the primary key they make),
\* {} when the table is declared without columns.
new_table(cls, name, tablespace, args) ==
    [name |-> name, key |-> name, schema |-> "None", cls |-> cls,
     ft_returned |-> FALSE, _prefixes |-> <<>>, tablespace |-> tablespace,
     has_pgfdw |-> FALSE, pgfdw_server |-> "None", pgfdw_options |-> <<>>,
     constraints |-> IF args = {} THEN {ImplicitPk} ELSE args]

\* _bind_or_error(metadata, msg=...)
metadata_bind_or_error(m) ==
    IF m.bind = "None" THEN [exc |-> "UnboundExecutionError", val |-> "None"]
    ELSE [exc |-> "", val |-> m.bind]

\* Table._autoload: reflecttable through autoload_with, or else through the
\* metadata's bind; a table the database does not hold is NoSuchTableError.
table_autoload(m, db, name, autoload_with) ==
    LET b == IF autoload_with # "None" THEN [exc |-> "", val |-> autoload_with]
             ELSE metadata_bind_or_error(m) IN
    IF b.exc # "" THEN [exc |-> b.exc, stmts |-> <<>>]
    ELSE IF \E i \in 1..Len(db.class) : db.class[i].relname = name
         THEN [exc |-> "", stmts |-> <<Query("reflecttable", name)>>]
         ELSE [exc |-> "NoSuchTableError", stmts |-> <<Query("reflecttable", name)>>]

\* Table.__new__(cls, name, metadata, *args, **kw) without keep_existing,
\* extend_existing or mustexist: an existing key gives the existing object
\* back, or InvalidRequestError when columns are passed; a new key allocates
\* an object of class cls, adds it to metadata.tables, and removes it again
\* when _init (the autoload) raises.
Table_new(m, db, cls, name, args, tablespace, autoload, autoload_with) ==
    LET do_autoload == autoload \/ autoload_with # "None"
        a == IF do_autoload THEN table_autoload(m, db, name, autoload_with)
             ELSE [exc |-> "", stmts |-> <<>>] IN
    IF name \in DOMAIN m.tables
    THEN IF args # {}
         THEN [exc |-> "InvalidRequestError", m |-> m, stmts |-> <<>>]
         ELSE [exc |-> "", m |-> m, stmts |-> <<>>]
    ELSE IF a.exc # "" THEN [exc |-> a.exc, m |-> m, stmts |-> a.stmts]
    ELSE [exc |-> "", stmts |-> a.stmts,
          m |-> [m EXCEPT !.tables = (name :> new_table(cls, name, tablespace, args)) @@ @]]

\* Mutant of ForeignTable_new: the table is not entered in _foreign_tables.
ForeignTable_new_NotRegistered(m, db, name, args, pgfdw_server, pgfdw_options, autoload, autoload_with) ==
    LET t == Table_new(m, db, "ForeignTable", name, args, "None",
                       autoload, autoload_with) IN
    IF t.exc # "" THEN t
    ELSE [exc |-> "", stmts |-> t.stmts,
          m |-> [t.m EXCEPT !.tables[name].has_pgfdw = TRUE,
                            !.tables[name].ft_returned = TRUE]]

\* ForeignTable.__new__; pgfdw_options is [none, items], none = TRUE for a
\* mapping that was not passed.
ForeignTable_new(m, db, name, args, pgfdw_server, pgfdw_options, autoload, autoload_with) ==
    LET t == Table_new(m, db, "ForeignTable", name, args, "None",
                       autoload, autoload_with)
        old == t.m.tables[name]
        table == [old EXCEPT
                    !.has_pgfdw = TRUE,
                    !.pgfdw_server = pgfdw_server,
                    !.pgfdw_options = IF pgfdw_options.none THEN <<>>
                                      ELSE pgfdw_options.items,
                    !._prefixes = IF \E i \in 1..Len(@) : @[i] = "FOREIGN"
                                  THEN @ ELSE Append(@, "FOREIGN")]
        m1 == [t.m EXCEPT !.tables[name] = table,
                          !._foreign_tables =
                              [present |-> TRUE, keys |-> @.keys \cup {table.key}]]
        b == IF autoload_with # "None" THEN [exc |-> "", val |-> autoload_with]
             ELSE metadata_bind_or_error(m1)
        o == get_foreign_table_options(db, [present |-> FALSE, entries |-> <<>>], table)
    IN
    IF t.exc # "" THEN t
    ELSE IF ~autoload
    THEN [exc |-> "", stmts |-> t.stmts,
          m |-> [m1 EXCEPT !.tables[name].ft_returned = TRUE]]
    ELSE IF b.exc # "" THEN [exc |-> b.exc, stmts |-> t.stmts, m |-> m1]
    ELSE [exc |-> o.exc, stmts |-> t.stmts \o o.stmts,
          m |-> [m1 EXCEPT !.tables[name].pgfdw_server = o.server,
                           !.tables[name].pgfdw_options = o.options,
                           !.tables[name].ft_returned = (@ \/ o.exc = "")]]

(***************************************************************************)
(* dialect.py: is_foreign and PGDDLCompilerFdw                             *)
(***************************************************************************)
\* is_foreign(t), m being t.metadata
is_foreign(m, t) ==
    t.key \in (IF m._foreign_tables.present THEN m._foreign_tables.keys ELSE {})

\* IdentifierPreparer._requires_quotes for the names used here: Users has an
\* upper-case letter, mytable and myview are plain.
requires_quotes(value) == value \in {"Users"}

\* preparer.format_table(table): the name, quoted when it requires quotes
format_table(table) ==
    IF requires_quotes(table.name) THEN quote_identifier(table.name)
    ELSE table.name

\* PGDDLCompiler.post_create_table: the table options of the base dialect
base_post_create_table(table) ==
    IF table.tablespace # "None" THEN "\n TABLESPACE " \o table.tablespace
    ELSE ""

\* PGDDLCompilerFdw.post_create_table
post_create_table(m, table) ==
    IF is_foreign(m, table)
    THEN " server " \o table.pgfdw_server \o " " \o sql_options(table.pgfdw_options)
    ELSE base_post_create_table(table)

\* Mutant of visit_drop_table: FOREIGN is emitted for every table.
visit_drop_table_AlwaysForeign(m, element) ==
    "DROP " \o "FOREIGN" \o " TABLE " \o format_table(element)

\* PGDDLCompilerFdw.visit_drop_table
visit_drop_table(m, element) ==
    LET prefix == IF is_foreign(m, element) THEN "FOREIGN" ELSE "" IN
    "DROP " \o prefix \o " TABLE " \o format_table(element)

(***************************************************************************)
(* Table and foreign-table construction on one catalog, and the DDL        *)
(* emitted for its tables                                                  *)
(***************************************************************************)
\* (pgfdw_server, pgfdw_options) as passed to ForeignTable; none = TRUE is
\* a pgfdw_options that was not passed.
ForeignArgs ==
    {<<"None", [none |-> TRUE, items |-> <<>>]>>,
     <<"srv1", [none |-> FALSE, items |-> <<>>]>>,
     <<"srv1", [none |-> FALSE, items |-> <<<<"option1", "test">>>>]>>,
     <<"srv1", [none |-> FALSE,
                items |-> <<<<"host", "127.0.0.1">>, <<"port", "5432">>>>]>>}
\* (autoload, autoload_with)
AutoloadArgs == {<<FALSE, "None">>, <<TRUE, "None">>, <<TRUE, "engine">>}
Tablespaces == {"None", "ts1"}

NoDDL == [op |-> "none", key |-> "None", exc |-> "", text |-> "",
          foreign |-> FALSE, processed |-> <<>>, constraints |-> {}]

\* An empty catalog, bound or not, and a database that holds the foreign
\* table mytable and no table Users; a table declared with columns has a
\* one-column primary key.
InitCatalog ==
    /\ md \in {[NoMetaData EXCEPT !.bind = b] : b \in Binds}
    /\ declared = {[ImplicitPk EXCEPT !.ncols = 1]}
    /\ pg = PgCatalog([null |-> FALSE, items |-> HostPort], "srv2", FALSE)
    /\ stmts = <<>>
    /\ last = NoDDL
    /\ info_cache = [present |-> FALSE, entries |-> <<>>]
    /\ desc = NoDescriptor
    /\ seen = {}
    /\ fdw = ForeignDataWrapper("srv1", "mysql_fdw",
                                [present |-> FALSE, bind |-> "None"], "None", <<>>)
    /\ pg_foreign_server = {}

\* Table(name, md, [columns], postgresql_tablespace=)
NewTable(name, args, tablespace) ==
    LET r == Table_new(md, pg, "Table", name, args, tablespace, FALSE, "None") IN
    /\ md' = r.m
    /\ stmts' = r.stmts
    /\ last' = [NoDDL EXCEPT !.op = "Table", !.key = name, !.exc = r.exc]
    /\ UNCHANGED <<serverVars, reflectVars, declared>>

\* ForeignTable(name, md, [columns], pgfdw_server=, pgfdw_options=,
\*              autoload=, autoload_with=)
NewForeignTable(name, args, server, options, autoload, autoload_with) ==
    LET r == ForeignTable_new(md, pg, name, args, server, options,
                              autoload, autoload_with) IN
    /\ md' = r.m
    /\ stmts' = r.stmts
    /\ last' = [NoDDL EXCEPT !.op = "ForeignTable", !.key = name, !.exc = r.exc]
    /\ UNCHANGED <<serverVars, reflectVars, declared>>

\* The DDL compiler asked for the suffix of CREATE TABLE of table key.
PostCreateTable(key) ==
    /\ key \in DOMAIN md.tables
    /\ last' = [NoDDL EXCEPT !.op = "post_create_table", !.key = key,
                             !.foreign = is_foreign(md, md.tables[key]),
                             !.text = post_create_table(md, md.tables[key])]
    /\ stmts' = <<>>
    /\ UNCHANGED <<serverVars, reflectVars, catalogVars>>

\* The DDL compiler asked for the DROP statement of table key.
VisitDropTable(key) ==
    /\ key \in DOMAIN md.tables
    /\ last' = [NoDDL EXCEPT !.op = "visit_drop_table", !.key = key,
                             !.foreign = is_foreign(md, md.tables[key]),
                             !.text = visit_drop_table(md, md.tables[key])]
    /\ stmts' = <<>>
    /\ UNCHANGED <<serverVars, reflectVars, catalogVars>>

NextCatalog ==
    \/ \E n \in TableNames, a \in {{}, declared}, ts \in Tablespaces :
            NewTable(n, a, ts)
    \/ \E n \in TableNames, a \in {{}, declared}, f \in ForeignArgs,
          al \in AutoloadArgs :
            NewForeignTable(n, a, f[1], f[2], al[1], al[2])
    \/ \E k \in TableNames : PostCreateTable(k)
    \/ \E k \in TableNames : VisitDropTable(k)

SpecCatalog == InitCatalog /\ [][NextCatalog]_vars

(***************************************************************************)
(* Properties of the registry and of the emitted DDL                       *)
(***************************************************************************)
\* The keys of md's _foreign_tables registry (none when it was never set).
Registry == IF md._foreign_tables.present THEN md._foreign_tables.keys ELSE {}

\* C3 (as amended): after any sequence of constructions on md, is_foreign is
\* true of every table a foreign-table construction has returned and false
\* of every ordinary table that no foreign-table construction has taken up;
\* is_foreign(t) holds exactly when t.key is in md's _foreign_tables, and
\* while no foreign table has been constructed no table is foreign.
C3_ForeignByRegistry ==
    /\ \A k \in DOMAIN md.tables :
        LET t == md.tables[k] IN
        /\ t.ft_returned => is_foreign(md, t)
        /\ (t.cls = "Table" /\ ~t.has_pgfdw) => ~is_foreign(md, t)
        /\ is_foreign(md, t) <=> t.key \in Registry
    /\ (\A k \in DOMAIN md.tables : ~md.tables[k].has_pgfdw)
            => \A k \in DOMAIN md.tables : ~is_foreign(md, md.tables[k])

\* An ordinary table and a foreign table side by side on one catalog.
C3_Witness ==
    /\ DOMAIN md.tables = {"mytable", "Users"}
    /\ md.tables["mytable"].cls = "ForeignTable"
    /\ md.tables["mytable"].ft_returned
    /\ is_foreign(md, md.tables["mytable"])
    /\ md.tables["Users"].cls = "Table"
    /\ ~is_foreign(md, md.tables["Users"])

\* C3 as claimed: is_foreign is true of every foreign-table descriptor
\* constructed on md and false of every ordinary table constructed on md.
C3_AsClaimed ==
    \A k \in DOMAIN md.tables :
        LET t == md.tables[k] IN
        /\ (t.cls = "ForeignTable" /\ t.ft_returned) => is_foreign(md, t)
        /\ t.cls = "Table" => ~is_foreign(md, t)

\* format_table's output for each table name
FormattedName == [n \in TableNames |-> IF n = "Users" THEN "\"Users\"" ELSE n]

\* C4 (as amended): visit_drop_table emits DROP FOREIGN TABLE <t> for a table
\* whose key is in the registry and DROP  TABLE <t> (the empty prefix leaves
\* two spaces) for any other, <t> being the table name as format_table gives
\* it, quoted only when it needs quoting; the two differ by the word FOREIGN
\* alone and is_foreign alone decides between them.
C4_DropForeignKeyword ==
    last.op = "visit_drop_table" =>
        /\ last.key \in Registry =>
                last.text = "DROP FOREIGN TABLE " \o FormattedName[last.key]
        /\ last.key \notin Registry =>
                last.text = "DROP  TABLE " \o FormattedName[last.key]

\* DROP of the ordinary table mytable.
C4_Witness ==
    /\ last.op = "visit_drop_table" /\ last.key = "mytable"
    /\ ~last.foreign
    /\ last.text = "DROP  TABLE mytable"
    /\ "Users" \in Registry

\* C4 as claimed: DROP FOREIGN TABLE "<name>" for a foreign table and
\* DROP TABLE "<name>" for an ordinary one.
C4_AsClaimed ==
    last.op = "visit_drop_table" =>
        last.text = (IF last.key \in Registry THEN "DROP FOREIGN TABLE \""
                     ELSE "DROP TABLE \"") \o last.key \o "\""

\* The options clause of each options mapping used here
ExpectedClause(options) ==
    CASE options = <<>> -> ""
      [] options = <<<<"option1", "test">>>> -> " options (\"option1\" 'test')"
      [] options = <<<<"host", "127.0.0.1">>, <<"port", "5432">>>> ->
            " options (\"host\" '127.0.0.1',\"port\" '5432')"

\* C5: for a foreign table post_create_table returns " server <server> "
\* followed by the options clause: nothing for an empty or absent mapping,
\* else " options (" with one "key" 'value' pair per entry, comma-separated,
\* and ")"; for an ordinary table it returns what the base compiler returns.
C5_PostCreateTable ==
    last.op = "post_create_table" =>
        LET t == md.tables[last.key] IN
        /\ last.key \in Registry =>
                /\ last.text = " server " \o t.pgfdw_server \o " "
                                    \o ExpectedClause(t.pgfdw_options)
                /\ Len(option_pairs(t.pgfdw_options)) = Len(t.pgfdw_options)
        /\ last.key \notin Registry =>
                last.text = (IF t.tablespace = "ts1" THEN "\n TABLESPACE ts1" ELSE "")

\* The suffix of a foreign table with two options.
C5_Witness ==
    /\ last.op = "post_create_table" /\ last.key \in Registry
    /\ last.text = " server srv1  options (\"host\" '127.0.0.1',\"port\" '5432')"

(***************************************************************************)
(* dialect.py: PGDDLCompilerFdw.create_table_constraints                   *)
(*                                                                         *)
(* A constraint is [kind, order, ncols, referred, use_alter, create_rule]: *)
(* order is its _creation_order, ncols the number of columns of a primary  *)
(* key, referred the key of the table a foreign key refers to, and         *)
(* create_rule is "None" (no _create_rule), "True" or "False" (what the    *)
(* rule answers).  table.constraints is the set of the table's             *)
(* constraints, exactly one of them its primary key.                       *)
(***************************************************************************)
supports_alter == TRUE

\* table.primary_key
primary_key(table) == CHOOSE c \in table.constraints : c.kind = "pk"

\* table._sorted_constraints: the constraints by _creation_order
RECURSIVE sorted_constraints(_)
sorted_constraints(cs) ==
    IF cs = {} THEN <<>>
    ELSE LET c == CHOOSE x \in cs : \A y \in cs : x.order <= y.order IN
         <<c>> \o sorted_constraints(cs \ {c})

\* self.process(constraint): the constraint's DDL
process(constraint) ==
    CASE constraint.kind = "pk" -> "PRIMARY KEY (id)"
      [] constraint.kind = "fk" ->
            "FOREIGN KEY(ref) REFERENCES " \o constraint.referred \o " (id)"
      [] OTHER -> "UNIQUE (name)"

\* ", \n\t".join(parts)
RECURSIVE JoinConstraints(_)
JoinConstraints(parts) ==
    IF parts = <<>> THEN ""
    ELSE IF Len(parts) = 1 THEN parts[1]
    ELSE parts[1] \o ", \n\t" \o JoinConstraints(Tail(parts))

\* The first two conditions of the generator's filter.
base_filters(constraint) ==
    /\ constraint.create_rule = "None" \/ constraint.create_rule = "True"
    /\ (~supports_alter) \/ ~constraint.use_alter

\* Mutant of foreign_foreign_key: no foreign key is taken to refer to a
\* foreign table.
foreign_foreign_key_Never(m, constraint) == FALSE

\* foreign_foreign_key(constraint); the referred table is looked up in m.
foreign_foreign_key(m, constraint) ==
    constraint.kind = "fk" /\ is_foreign(m, m.tables[constraint.referred])

\* The else branch of create_table_constraints.  Reading _referred_table of
\* a foreign key whose table is not in the catalog is NoReferencedTableError.
render_constraints(m, table) ==
    LET pk == primary_key(table)
        constraints ==
            (IF pk.ncols > 0 THEN <<pk>> ELSE <<>>)
            \o SelectSeq(sorted_constraints(table.constraints), LAMBDA c : c # pk)
        unresolved == \E i \in 1..Len(constraints) :
                        /\ base_filters(constraints[i])
                        /\ constraints[i].kind = "fk"
                        /\ constraints[i].referred \notin DOMAIN m.tables
        kept == SelectSeq(constraints, LAMBDA c :
                    base_filters(c) /\ ~foreign_foreign_key(m, c)) IN
    IF unresolved
    THEN [exc |-> "NoReferencedTableError", text |-> "", processed |-> <<>>]
    ELSE [exc |-> "", processed |-> kept,
          text |-> JoinConstraints([i \in 1..Len(kept) |-> process(kept[i])])]

\* Mutant of create_table_constraints: a foreign table is not told apart.
create_table_constraints_NoForeignCheck(m, table) == render_constraints(m, table)

\* PGDDLCompilerFdw.create_table_constraints
create_table_constraints(m, table) ==
    IF is_foreign(m, table)
    THEN [exc |-> "", text |-> "", processed |-> <<>>]
    ELSE render_constraints(m, table)

(***************************************************************************)
(* Constraint rendering on the tables of one catalog                       *)
(***************************************************************************)
MaxConstraints == 2

PkValues ==
    {[kind |-> "pk", ncols |-> n, referred |-> "None", use_alter |-> FALSE,
      create_rule |-> "None"] : n \in {0, 1}}
OtherValues ==
    {[kind |-> "unique", ncols |-> 1, referred |-> "None", use_alter |-> FALSE,
      create_rule |-> r] : r \in {"None", "False"}}
    \cup {[kind |-> "fk", ncols |-> 1, referred |-> t, use_alter |-> f[1],
           create_rule |-> f[2]] :
                t \in TableNames,
                f \in {<<FALSE, "None">>, <<TRUE, "None">>, <<FALSE, "False">>}}

\* The constraints of a table: its primary key (first made, as Table
\* itself makes it, or last made, as an explicit PrimaryKeyConstraint after
\* the others is) and up to MaxConstraints others, numbered as they were made.
WithOrder(c, n) ==
    [kind |-> c.kind, order |-> n, ncols |-> c.ncols, referred |-> c.referred,
     use_alter |-> c.use_alter, create_rule |-> c.create_rule]
ConstraintSets ==
    {{WithOrder(pk, IF first THEN 0 ELSE Len(others) + 1)}
        \cup {WithOrder(others[i], i) : i \in 1..Len(others)} :
            pk \in PkValues, first \in BOOLEAN,
            others \in SeqsUpTo(OtherValues, MaxConstraints)}

\* An empty unbound catalog whose tables will be declared with one of the
\* constraint sets.
InitConstraints ==
    /\ md = NoMetaData
    /\ declared \in ConstraintSets
    /\ pg = PgCatalog([null |-> FALSE, items |-> HostPort], "srv2", FALSE)
    /\ stmts = <<>>
    /\ last = NoDDL
    /\ info_cache = [present |-> FALSE, entries |-> <<>>]
    /\ desc = NoDescriptor
    /\ seen = {}
    /\ fdw = ForeignDataWrapper("srv1", "mysql_fdw",
                                [present |-> FALSE, bind |-> "None"], "None", <<>>)
    /\ pg_foreign_server = {}

\* The DDL compiler asked for the constraint clause of table key.
CreateTableConstraints(key) ==
    /\ key \in DOMAIN md.tables
    /\ LET table == md.tables[key]
           r == create_table_constraints(md, table) IN
       last' = [NoDDL EXCEPT !.op = "create_table_constraints", !.key = key,
                             !.exc = r.exc, !.text = r.text,
                             !.foreign = is_foreign(md, table),
                             !.processed = r.processed,
                             !.constraints = table.constraints]
    /\ stmts' = <<>>
    /\ UNCHANGED <<serverVars, reflectVars, catalogVars>>

NextConstraints ==
    \/ \E n \in TableNames : NewTable(n, declared, "None")
    \/ \E n \in TableNames :
            NewForeignTable(n, declared, "srv1", [none |-> TRUE, items |-> <<>>],
                            FALSE, "None")
    \/ \E k \in TableNames : CreateTableConstraints(k)

SpecConstraints == InitConstraints /\ [][NextConstraints]_vars

Rendered == {last.processed[i] : i \in 1..Len(last.processed)}

\* C6: create_table_constraints on a foreign table yields the empty clause
\* whatever constraints the table carries, and processes none of them.
C6_ForeignTableNoConstraints ==
    (last.op = "create_table_constraints" /\ last.key \in Registry) =>
        (last.exc = "" /\ last.text = "" /\ last.processed = <<>>)

\* A foreign table with a primary key and a foreign key to an ordinary table.
C6_Witness ==
    /\ last.op = "create_table_constraints" /\ last.key \in Registry
    /\ last.text = ""
    /\ \E c \in last.constraints : c.kind = "pk" /\ c.ncols = 1
    /\ \E c \in last.constraints :
            /\ c.kind = "fk" /\ c.referred \in DOMAIN md.tables \ Registry
            /\ base_filters(c)

\* C7: for an ordinary table the rendered constraints leave out every
\* foreign key whose referred table is foreign and hold every foreign key
\* to an ordinary table that passes the create-rule and use_alter filters;
\* the other constraints are rendered or not by those two filters alone, in
\* creation order, and a primary key with columns is rendered first.
C7_ForeignKeysToForeignTablesDropped ==
    (last.op = "create_table_constraints" /\ last.key \notin Registry
        /\ last.exc = "") =>
        /\ Rendered \subseteq last.constraints
        /\ Cardinality(Rendered) = Len(last.processed)
        /\ \A c \in last.constraints :
            /\ (c.kind = "fk" /\ c.referred \in Registry) => c \notin Rendered
            /\ (c.kind = "fk" /\ c.referred \notin Registry) =>
                    (c \in Rendered <=>
                        (c.create_rule # "False" /\ ~c.use_alter))
            /\ c.kind = "unique" => (c \in Rendered <=> c.create_rule # "False")
            /\ c.kind = "pk" =>
                    IF c.ncols > 0 THEN last.processed # <<>> /\ last.processed[1] = c
                    ELSE c \notin Rendered
        /\ \A i, j \in 1..Len(last.processed) :
                (i < j /\ last.processed[i].kind # "pk")
                    => last.processed[i].order < last.processed[j].order
        /\ last.text = JoinConstraints([i \in 1..Len(last.processed) |->
                                            process(last.processed[i])])

\* An ordinary table with a late-made primary key, a foreign key to a
\* foreign table and a foreign key to an ordinary one.
C7_Witness ==
    /\ last.op = "create_table_constraints" /\ last.key = "Users"
    /\ last.key \notin Registry /\ "mytable" \in Registry
    /\ last.text = "PRIMARY KEY (id), \n\tFOREIGN KEY(ref) REFERENCES Users (id)"
    /\ \E c \in last.constraints : c.kind = "fk" /\ c.referred = "mytable"
                                    /\ base_filters(c)
    /\ \E c \in last.constraints : c.kind = "pk" /\ c.order = 3

====
